---- MODULE Spec2Model ----
(***************************************************************************)
(* Model of introduction-to-pytorch-8-full-process.ipynb: the data         *)
(* loaders, the NeuralNetwork module, train(), test(), the epoch loop, the *)
(* checkpoint save / load cells and the inference cell.                    *)
(*                                                                         *)
(* Tensors are abstracted to integers: an image is one integer feature,    *)
(* the two hidden layers have width one, the output layer has the ten      *)
(* classes of the source.  A parameter tensor is the sequence of its       *)
(* entries (its shape is the length).  The loss is the multiclass margin   *)
(* (top logit minus the logit of the true class), averaged over the batch  *)
(* as CrossEntropyLoss averages; its gradient is computed by the chain     *)
(* rule through the three Linear/ReLU layers, in units of the learning     *)
(* rate.  Floats are exact rationals <<numerator, denominator>>.           *)
(***************************************************************************)
EXTENDS Integers, Sequences, FiniteSets, TLC

VARIABLES
    data,        \* the two FashionMNIST partitions: sizes and content seed
    batch_size,  \* batch_size handed to both DataLoaders
    objs,        \* heap of NeuralNetwork objects: params, grad, training flag
    model,       \* the global name `model`: a reference into objs
    pc,          \* position in the notebook's control flow
    t,           \* epoch loop variable
    frame,       \* locals of the running train() / test() call
    out,         \* lines printed so far
    file,        \* contents of data/model.pth
    classes,     \* the global label table of the inference cell
    result,      \* globals x, y, pred, predicted, actual of the inference cell
    hist         \* history: optimizer steps taken, examples evaluated in a pass

vars == <<data, batch_size, objs, model, pc, t, frame, out, file, classes, result, hist>>

----------------------------------------------------------------------------
(* Bounds of the model *)

MaxSmall == 3
MaxBatch == 2
MaxSeed == 1

(* Program constants *)

epochs == 15
LogInterval == 100
NumClasses == 10

None == "None"

W0 == "linear_relu_stack.0.weight"
B0 == "linear_relu_stack.0.bias"
W2 == "linear_relu_stack.2.weight"
B2 == "linear_relu_stack.2.bias"
W4 == "linear_relu_stack.4.weight"
B4 == "linear_relu_stack.4.bias"

Names == {W0, B0, W2, B2, W4, B4}

Shape(name) == IF name \in {W4, B4} THEN NumClasses ELSE 1

ClassTable ==
    << "T-shirt/top", "Trouser", "Pullover", "Dress", "Coat",
       "Sandal", "Shirt", "Sneaker", "Bag", "Ankle boot" >>

----------------------------------------------------------------------------
(* Exact rationals standing for Python floats *)

RECURSIVE GCD(_, _)
GCD(a, b) == IF b = 0 THEN a ELSE GCD(b, a % b)

Rat(n, d) == LET g == GCD(n, d) IN IF n = 0 THEN <<0, 1>> ELSE <<n \div g, d \div g>>

RatAdd(p, q) == Rat(p[1] * q[2] + q[1] * p[2], p[2] * q[2])

RatDiv(p, n) == Rat(p[1], p[2] * n)

----------------------------------------------------------------------------
(* Datasets and loaders *)

\* datasets.FashionMNIST(train=True / train=False): example i of a partition
Example(ds, i) ==
    IF ds = "training_data"
    THEN [x |-> 1 + (i % 2), y |-> (3 + data.seed * i) % NumClasses]
    ELSE [x |-> 2 - (i % 2), y |-> (9 + data.seed * i) % NumClasses]

DatasetLen(ds) == IF ds = "training_data" THEN data.training_data ELSE data.test_data

train_dataloader == [dataset |-> "training_data"]
test_dataloader == [dataset |-> "training_data"]

Min(a, b) == IF a < b THEN a ELSE b

\* number of batches a DataLoader yields (drop_last = False)
NumBatches(dl) == (DatasetLen(dl.dataset) + batch_size - 1) \div batch_size

\* batch k (from 0) of a DataLoader without shuffling: the example ids
Batch(dl, k) ==
    LET lo == k * batch_size
        hi == Min(lo + batch_size, DatasetLen(dl.dataset))
    IN  [j \in 1..(hi - lo) |-> <<dl.dataset, lo + j - 1>>]

Xs(X) == [j \in 1..Len(X) |-> Example(X[j][1], X[j][2]).x]
Ys(X) == [j \in 1..Len(X) |-> Example(X[j][1], X[j][2]).y]

----------------------------------------------------------------------------
(* NeuralNetwork: Flatten, Linear, ReLU, Linear, ReLU, Linear, ReLU *)

ReLU(z) == IF z > 0 THEN z ELSE 0

\* pre-activations and activations of the three layers for one input
Layers(p, x) ==
    LET z0 == p[W0][1] * x + p[B0][1]
        h1 == ReLU(z0)
        z2 == p[W2][1] * h1 + p[B2][1]
        h2 == ReLU(z2)
        z4(c) == p[W4][c] * h2 + p[B4][c]
    IN  [z0 |-> z0, h1 |-> h1, z2 |-> z2, h2 |-> h2,
         z4 |-> [c \in 1..NumClasses |-> z4(c)],
         logits |-> [c \in 1..NumClasses |-> ReLU(z4(c))]]

\* model(X): per example of the batch, the activations the forward pass
\* records; field logits is the row of the returned tensor
forward(p, xs) == [j \in 1..Len(xs) |-> Layers(p, xs[j])]

Logits(graph) == [j \in 1..Len(graph) |-> graph[j].logits]

\* tensor.argmax: index (from 0) of the first largest entry
argmax(v) ==
    (CHOOSE i \in 1..Len(v) :
        /\ \A j \in 1..Len(v) : v[j] <= v[i]
        /\ \A j \in 1..(i - 1) : v[j] < v[i]) - 1

RECURSIVE SumSeq(_)
SumSeq(s) == IF s = <<>> THEN 0 ELSE Head(s) + SumSeq(Tail(s))

\* loss of one example: top logit minus the logit of the true class
ExampleLoss(logits, y) == logits[argmax(logits) + 1] - logits[y + 1]

\* loss_fn = nn.CrossEntropyLoss(): the mean over the batch
loss_fn(pred, ys) ==
    Rat(SumSeq([j \in 1..Len(pred) |-> ExampleLoss(pred[j], ys[j])]), Len(pred))

ZeroGrads == [n \in Names |-> [c \in 1..Shape(n) |-> 0]]

\* entry c of the gradient of one example's loss with respect to parameter
\* n, by the chain rule over the activations l recorded by the forward pass;
\* the loss depends on two logits only, the top one (+1) and the label's (-1)
GradEntry(p, l, x, y, n, c) ==
    LET a == argmax(l.logits)
        dz4(k) == IF l.z4[k] > 0
                  THEN (IF k = a + 1 THEN 1 ELSE 0) - (IF k = y + 1 THEN 1 ELSE 0)
                  ELSE 0
        dh2 == IF a = y THEN 0
               ELSE dz4(a + 1) * p[W4][a + 1] + dz4(y + 1) * p[W4][y + 1]
        dz2 == IF l.z2 > 0 THEN dh2 ELSE 0
        dh1 == dz2 * p[W2][1]
        dz0 == IF l.z0 > 0 THEN dh1 ELSE 0
    IN  CASE n = W0 -> dz0 * x
          [] n = B0 -> dz0
          [] n = W2 -> dz2 * l.h1
          [] n = B2 -> dz2
          [] n = W4 -> dz4(c) * l.h2
          [] n = B4 -> dz4(c)

\* the same entry for the batch's loss: the examples' entries added up, from
\* example j on
RECURSIVE GradSum(_, _, _, _, _, _, _)
GradSum(p, graph, xs, ys, n, c, j) ==
    IF j > Len(xs) THEN 0
    ELSE GradEntry(p, graph[j], xs[j], ys[j], n, c) + GradSum(p, graph, xs, ys, n, c, j + 1)

\* gradient of the batch's loss with respect to every parameter
BatchGrad(p, graph, xs, ys) ==
    [n \in Names |-> [c \in 1..Shape(n) |-> GradSum(p, graph, xs, ys, n, c, 1)]]

\* loss.backward(): accumulates the batch's gradient into every .grad
backward(o, graph, xs, ys) ==
    [o EXCEPT !.grad =
        [n \in Names |->
            [c \in 1..Shape(n) |-> o.grad[n][c] + GradSum(o.params, graph, xs, ys, n, c, 1)]]]

\* a train() without the reset: the gradients of earlier batches stay
zero_grad_omitted(o) == o

\* optimizer.zero_grad()
zero_grad(o) == [o EXCEPT !.grad = ZeroGrads]

\* optimizer.step() of torch.optim.SGD: p <- p - lr * p.grad
step(o) ==
    [o EXCEPT !.params = [n \in Names |-> [c \in 1..Shape(n) |-> o.params[n][c] - o.grad[n][c]]]]

\* NeuralNetwork(): a new module with freshly initialised parameters
NeuralNetwork(id) ==
    [params |-> (W0 :> <<id>>) @@ (B0 :> <<0>>) @@ (W2 :> <<1>>) @@ (B2 :> <<id - 1>>) @@
                (W4 :> [c \in 1..NumClasses |-> 1]) @@
                (B4 :> [c \in 1..NumClasses |-> IF id = 1 THEN NumClasses + 1 - c ELSE c]),
     grad |-> ZeroGrads,
     training |-> TRUE]

\* the module the optimizer was built over (cell 6)
optimizer == [model |-> 1]

----------------------------------------------------------------------------
(* Checkpoints *)

\* registration order of the parameters in the module's state_dict
StateDictKeys == <<W0, B0, W2, B2, W4, B4>>

\* model.state_dict(): the named parameter mapping
state_dict(o) == o.params

\* torch.save(sd, path): one entry per key, in order, with its size and storage
save(sd) ==
    [i \in 1..Len(StateDictKeys) |->
        [key |-> StateDictKeys[i], size |-> Len(sd[StateDictKeys[i]]),
         storage |-> sd[StateDictKeys[i]]]]

\* torch.load(path): rebuild the mapping from the entries of the file
load(blob) ==
    LET Entry(n) == CHOOSE i \in 1..Len(blob) : blob[i].key = n
    IN  [n \in {blob[i].key : i \in 1..Len(blob)} |->
            SubSeq(blob[Entry(n)].storage, 1, blob[Entry(n)].size)]

\* keys and shapes on which a state dict and a module disagree (strict = True)
LoadErrors(o, sd) ==
    [missing |-> DOMAIN o.params \ DOMAIN sd,
     unexpected |-> DOMAIN sd \ DOMAIN o.params,
     size_mismatch |-> {n \in DOMAIN o.params \cap DOMAIN sd : Len(sd[n]) # Len(o.params[n])}]

\* a load that copies the weights and leaves the biases as constructed
load_state_dict_weights_only(o, sd) ==
    [o EXCEPT !.params =
        [n \in DOMAIN o.params |->
            IF n \in DOMAIN sd /\ n \in {W0, W2, W4} THEN sd[n] ELSE o.params[n]]]

\* model.load_state_dict(sd): copy every matching entry into the module
load_state_dict(o, sd) ==
    LET e == LoadErrors(o, sd)
    IN  [o EXCEPT !.params =
            [n \in DOMAIN o.params |->
                IF n \in DOMAIN sd /\ n \notin e.size_mismatch THEN sd[n] ELSE o.params[n]]]

----------------------------------------------------------------------------
(* Initial state: cells 1 to 8 have run *)

\* sizes of training_data: small ones, and one whose batch number
\* LogInterval is a last, short batch at the largest batch size
TrainSizes == (1..MaxSmall) \cup {LogInterval * MaxBatch + 1}

\* FashionMNIST holds out one example for every six it trains on
HeldOut(n) == (n + 5) \div 6

Init ==
    /\ data \in {[training_data |-> n, test_data |-> HeldOut(n), seed |-> s] :
                    n \in TrainSizes, s \in 0..MaxSeed}
    /\ batch_size \in 1..MaxBatch
    /\ objs = (1 :> NeuralNetwork(1))
    /\ model = 1
    /\ pc = "epoch"
    /\ t = 0
    /\ frame = None
    /\ out = <<>>
    /\ file = None
    /\ classes = None
    /\ result = None
    /\ hist = [steps |-> 0, evaluated |-> 0]

----------------------------------------------------------------------------
(* The epoch loop and train() *)

\* body of the epoch loop up to the call of train(): the first batch is fetched
EpochBegin ==
    /\ pc = "epoch"
    /\ out' = Append(out, [kind |-> "epoch", n |-> t + 1])
    /\ frame' = [fn |-> "train", size |-> DatasetLen(train_dataloader.dataset),
                 batch |-> 0, X |-> Batch(train_dataloader, 0),
                 graph |-> None, pred |-> None, loss |-> None]
    /\ pc' = "forward"
    /\ UNCHANGED <<data, batch_size, objs, model, t, file, classes, result, hist>>

\* pred = model(X)
TrainForward ==
    /\ pc = "forward"
    /\ \E graph \in {forward(objs[model].params, Xs(frame.X))} :
          frame' = [frame EXCEPT !.graph = graph, !.pred = Logits(graph), !.loss = None]
    /\ pc' = "loss"
    /\ UNCHANGED <<data, batch_size, objs, model, t, out, file, classes, result, hist>>

\* loss = loss_fn(pred, y)
TrainLoss ==
    /\ pc = "loss"
    /\ frame' = [frame EXCEPT !.loss = loss_fn(frame.pred, Ys(frame.X))]
    /\ pc' = "zero_grad"
    /\ UNCHANGED <<data, batch_size, objs, model, t, out, file, classes, result, hist>>

\* optimizer.zero_grad()
TrainZeroGrad ==
    /\ pc = "zero_grad"
    /\ objs' = [objs EXCEPT ![optimizer.model] = zero_grad(@)]
    /\ pc' = "backward"
    /\ UNCHANGED <<data, batch_size, model, t, frame, out, file, classes, result, hist>>

\* loss.backward()
TrainBackward ==
    /\ pc = "backward"
    /\ objs' = [objs EXCEPT ![model] = backward(@, frame.graph, Xs(frame.X), Ys(frame.X))]
    /\ pc' = "opt_step"
    /\ UNCHANGED <<data, batch_size, model, t, frame, out, file, classes, result, hist>>

\* optimizer.step()
TrainStep ==
    /\ pc = "opt_step"
    /\ objs' = [objs EXCEPT ![optimizer.model] = step(@)]
    /\ hist' = [hist EXCEPT !.steps = @ + 1]
    /\ pc' = "log"
    /\ UNCHANGED <<data, batch_size, model, t, frame, out, file, classes, result>>

\* the progress line train() prints for the batch it has just processed
ProgressLine(f) ==
    [kind |-> "loss", loss |-> f.loss, current |-> f.batch * Len(f.X), size |-> f.size]

\* if batch % 100 == 0: print; then the next batch, or return from train()
TrainLog ==
    /\ pc = "log"
    /\ out' = IF frame.batch % LogInterval = 0 THEN Append(out, ProgressLine(frame)) ELSE out
    /\ IF frame.batch + 1 < NumBatches(train_dataloader)
       THEN /\ frame' = [frame EXCEPT !.batch = @ + 1,
                                      !.X = Batch(train_dataloader, frame.batch + 1)]
            /\ pc' = "forward"
       ELSE /\ frame' = None
            /\ pc' = "test_begin"
    /\ UNCHANGED <<data, batch_size, objs, model, t, file, classes, result, hist>>

----------------------------------------------------------------------------
(* test() *)

\* a test() that does not call model.eval()
TestBeginNoEval ==
    /\ pc = "test_begin"
    /\ frame' = [fn |-> "test", size |-> DatasetLen(test_dataloader.dataset),
                 test_loss |-> <<0, 1>>, correct |-> 0, k |-> 0,
                 X |-> <<>>, pred |-> <<>>]
    /\ hist' = [hist EXCEPT !.evaluated = 0]
    /\ pc' = "test_batch"
    /\ UNCHANGED <<data, batch_size, objs, model, t, out, file, classes, result>>

\* size = len(dataloader.dataset); model.eval(); test_loss, correct = 0, 0
TestBegin ==
    /\ pc = "test_begin"
    /\ objs' = [objs EXCEPT ![model].training = FALSE]
    /\ frame' = [fn |-> "test", size |-> DatasetLen(test_dataloader.dataset),
                 test_loss |-> <<0, 1>>, correct |-> 0, k |-> 0,
                 X |-> <<>>, pred |-> <<>>]
    /\ hist' = [hist EXCEPT !.evaluated = 0]
    /\ pc' = "test_batch"
    /\ UNCHANGED <<data, batch_size, model, t, out, file, classes, result>>

\* (pred.argmax(1) == y).type(torch.float).sum().item()
CorrectIn(pred, ys) == Cardinality({j \in 1..Len(pred) : argmax(pred[j]) = ys[j]})

\* an evaluation loop that also steps the optimizer
TestBatchStepping ==
    /\ pc = "test_batch"
    /\ frame.k < NumBatches(test_dataloader)
    /\ \E X \in {Batch(test_dataloader, frame.k)} :
       \E pred \in {Logits(forward(objs[model].params, Xs(X)))} :
       \E loss \in {loss_fn(pred, Ys(X))} :
           /\ frame' = [frame EXCEPT
                           !.X = X, !.pred = pred, !.k = @ + 1,
                           !.test_loss = RatAdd(@, loss),
                           !.correct = @ + CorrectIn(pred, Ys(X))]
           /\ hist' = [hist EXCEPT !.evaluated = @ + Len(X)]
    /\ objs' = [objs EXCEPT ![optimizer.model] = step(@)]
    /\ UNCHANGED <<data, batch_size, model, pc, t, out, file, classes, result>>

\* one iteration of the loop of test(), under torch.no_grad()
TestBatch ==
    /\ pc = "test_batch"
    /\ frame.k < NumBatches(test_dataloader)
    /\ \E X \in {Batch(test_dataloader, frame.k)} :
       \E pred \in {Logits(forward(objs[model].params, Xs(X)))} :
       \E loss \in {loss_fn(pred, Ys(X))} :
           /\ frame' = [frame EXCEPT
                           !.X = X, !.pred = pred, !.k = @ + 1,
                           !.test_loss = RatAdd(@, loss),
                           !.correct = @ + CorrectIn(pred, Ys(X))]
           /\ hist' = [hist EXCEPT !.evaluated = @ + Len(X)]
    /\ UNCHANGED <<data, batch_size, objs, model, pc, t, out, file, classes, result>>

\* a test() that averages the correct count over the batches
TestEndPerBatch ==
    /\ pc = "test_batch"
    /\ frame.k = NumBatches(test_dataloader)
    /\ out' = Append(out, [kind |-> "test",
                           accuracy |-> Rat(frame.correct, NumBatches(test_dataloader)),
                           avg_loss |-> RatDiv(frame.test_loss, frame.size)])
    /\ frame' = None
    /\ pc' = "loop_next"
    /\ UNCHANGED <<data, batch_size, objs, model, t, file, classes, result, hist>>

\* test_loss /= size; correct /= size; print; return
TestEnd ==
    /\ pc = "test_batch"
    /\ frame.k = NumBatches(test_dataloader)
    /\ out' = Append(out, [kind |-> "test",
                           accuracy |-> Rat(frame.correct, frame.size),
                           avg_loss |-> RatDiv(frame.test_loss, frame.size)])
    /\ frame' = None
    /\ pc' = "loop_next"
    /\ UNCHANGED <<data, batch_size, objs, model, t, file, classes, result, hist>>

\* a loop that runs one epoch too many
LoopNextInclusive ==
    /\ pc = "loop_next"
    /\ IF t + 1 <= epochs
       THEN t' = t + 1 /\ pc' = "epoch"
       ELSE t' = t /\ pc' = "done"
    /\ UNCHANGED <<data, batch_size, objs, model, frame, out, file, classes, result, hist>>

\* for t in range(epochs): the next value of t, or the end of the loop
LoopNext ==
    /\ pc = "loop_next"
    /\ IF t + 1 < epochs
       THEN t' = t + 1 /\ pc' = "epoch"
       ELSE t' = t /\ pc' = "done"
    /\ UNCHANGED <<data, batch_size, objs, model, frame, out, file, classes, result, hist>>

\* print("Done!")
PrintDone ==
    /\ pc = "done"
    /\ out' = Append(out, [kind |-> "done"])
    /\ pc' = "save"
    /\ UNCHANGED <<data, batch_size, objs, model, t, frame, file, classes, result, hist>>

----------------------------------------------------------------------------
(* Saving, loading and inference cells *)

\* torch.save(model.state_dict(), "data/model.pth")
Save ==
    /\ pc = "save"
    /\ file' = save(state_dict(objs[model]))
    /\ out' = Append(out, [kind |-> "saved"])
    /\ pc' = "construct"
    /\ UNCHANGED <<data, batch_size, objs, model, t, frame, classes, result, hist>>

\* model = NeuralNetwork()
Construct ==
    /\ pc = "construct"
    /\ objs' = objs @@ (2 :> NeuralNetwork(2))
    /\ model' = 2
    /\ pc' = "load"
    /\ UNCHANGED <<data, batch_size, t, frame, out, file, classes, result, hist>>

\* model.load_state_dict(torch.load("data/model.pth"))
Load ==
    /\ pc = "load"
    /\ LET sd == load(file)
           e == LoadErrors(objs[model], sd)
       IN  /\ objs' = [objs EXCEPT ![model] = load_state_dict(@, sd)]
           /\ pc' = IF e.missing = {} /\ e.unexpected = {} /\ e.size_mismatch = {}
                    THEN "classes" ELSE "error"
    /\ UNCHANGED <<data, batch_size, model, t, frame, out, file, classes, result, hist>>

\* classes = [...]; model.eval(); x, y = test_data[0][0], test_data[0][1]
InferenceSetup ==
    /\ pc = "classes"
    /\ classes' = ClassTable
    /\ objs' = [objs EXCEPT ![model].training = FALSE]
    /\ result' = [x |-> Example("test_data", 0).x, y |-> Example("test_data", 0).y,
                  pred |-> None, predicted |-> None, actual |-> None]
    /\ pc' = "infer"
    /\ UNCHANGED <<data, batch_size, model, t, frame, out, file, hist>>

\* an inference that looks the label up one entry too far (wrapping round)
InferenceShifted ==
    /\ pc = "infer"
    /\ \E pred \in {Logits(forward(objs[model].params, <<result.x>>))} :
       LET predicted == classes[((argmax(pred[1]) + 1) % NumClasses) + 1]
           actual == classes[result.y + 1]
       IN  /\ result' = [result EXCEPT !.pred = pred, !.predicted = predicted,
                                       !.actual = actual]
           /\ out' = Append(out, [kind |-> "predicted", predicted |-> predicted,
                                  actual |-> actual])
    /\ pc' = "end"
    /\ UNCHANGED <<data, batch_size, objs, model, t, frame, file, classes, hist>>

\* with torch.no_grad(): pred = model(x); predicted, actual = ...; print
Inference ==
    /\ pc = "infer"
    /\ \E pred \in {Logits(forward(objs[model].params, <<result.x>>))} :
       LET predicted == classes[argmax(pred[1]) + 1]
           actual == classes[result.y + 1]
       IN  /\ result' = [result EXCEPT !.pred = pred, !.predicted = predicted,
                                       !.actual = actual]
           /\ out' = Append(out, [kind |-> "predicted", predicted |-> predicted,
                                  actual |-> actual])
    /\ pc' = "end"
    /\ UNCHANGED <<data, batch_size, objs, model, t, frame, file, classes, hist>>

Next ==
    \/ EpochBegin
    \/ TrainForward
    \/ TrainLoss
    \/ TrainZeroGrad
    \/ TrainBackward
    \/ TrainStep
    \/ TrainLog
    \/ TestBegin
    \/ TestBatch
    \/ TestEnd
    \/ LoopNext
    \/ PrintDone
    \/ Save
    \/ Construct
    \/ Load
    \/ InferenceSetup
    \/ Inference

Spec == Init /\ [][Next]_vars

\* the notebook kernel runs every cell to its end
FairSpec == Spec /\ WF_vars(Next)

----------------------------------------------------------------------------
(* Properties *)

\* C1: during an evaluation pass every example fed to the model comes from
\* the held-out partition test_data, never from the partition train() uses
\* for its gradient steps.
C1HeldOut ==
    (pc = "test_batch" /\ frame.k > 0) =>
        \A j \in 1..Len(frame.X) :
            /\ frame.X[j][1] = "test_data"
            /\ frame.X[j][1] # train_dataloader.dataset

\* the per-batch losses of an evaluation pass over the current parameters
EvalBatchLosses ==
    {loss_fn(Logits(forward(objs[model].params, Xs(Batch(test_dataloader, k)))),
             Ys(Batch(test_dataloader, k))) : k \in 0..(NumBatches(test_dataloader) - 1)}

\* C2: when every batch of the evaluation pass has the same loss L, the
\* average loss test() reports is L.
C2MeanLoss ==
    pc = "loop_next" =>
        \A L \in EvalBatchLosses :
            EvalBatchLosses = {L} => out[Len(out)].avg_loss = L

\* C3: when loss.backward() runs for a batch the prediction and the loss of
\* that batch have been computed and every gradient left by earlier batches
\* has been discarded; the gradient optimizer.step() applies is the gradient
\* of that batch's loss alone.
C3FreshGradient ==
    /\ pc \in {"backward", "opt_step"} =>
          /\ frame.graph = forward(objs[model].params, Xs(frame.X))
          /\ frame.pred = Logits(frame.graph)
          /\ frame.loss = loss_fn(frame.pred, Ys(frame.X))
    /\ pc = "backward" => objs[optimizer.model].grad = ZeroGrads
    /\ pc = "opt_step" =>
          objs[optimizer.model].grad =
              BatchGrad(objs[optimizer.model].params,
                        forward(objs[optimizer.model].params, Xs(frame.X)),
                        Xs(frame.X), Ys(frame.X))

\* a step of a later batch of a later epoch that applies a non-zero gradient
C3Witness ==
    /\ pc = "opt_step"
    /\ t >= 1
    /\ frame.batch >= 1
    /\ objs[optimizer.model].grad # ZeroGrads

\* C4: the count on a progress line is the number of examples the training
\* pass has processed so far (up to, or up to and including, the logged batch).
C4Processed ==
    [][(pc = "log" /\ out' # out) =>
          out'[Len(out')].current \in
              {frame.X[1][2], frame.X[1][2] + Len(frame.X)}]_vars

\* C5: no step of an evaluation pass, nor the move to the next epoch and the
\* entry into its training pass, changes a parameter of any module.
C5EvalReadOnly ==
    [][(pc \in {"test_begin", "test_batch", "loop_next", "epoch"}) =>
          (\A o \in DOMAIN objs : objs'[o].params = objs[o].params)]_vars

\* an evaluation pass under way over parameters that training has changed
C5Witness ==
    /\ pc = "test_batch"
    /\ frame.k >= 2
    /\ objs[model].params # NeuralNetwork(1).params
    /\ objs[model].grad # ZeroGrads

Evaluated == 0..(hist.evaluated - 1)

\* C8: the accuracy test() reports is the number of evaluated examples whose
\* first top-scoring class is the label, over the number of examples
\* evaluated; it lies between 0 and 1.
C8Accuracy ==
    pc = "loop_next" =>
        LET acc == out[Len(out)].accuracy
            hits == {i \in Evaluated :
                        LET e == Example(test_dataloader.dataset, i)
                            v == Layers(objs[model].params, e.x).logits
                        IN  /\ \A c \in 1..NumClasses : v[c] <= v[e.y + 1]
                            /\ \A c \in 1..e.y : v[c] < v[e.y + 1]}
        IN  /\ hist.evaluated > 0
            /\ acc[1] * hist.evaluated = Cardinality(hits) * acc[2]
            /\ 0 <= acc[1]
            /\ acc[1] <= acc[2]

\* a pass whose last batch is short and whose accuracy is neither 0 nor 1
C8Witness ==
    /\ pc = "loop_next"
    /\ hist.evaluated % batch_size # 0
    /\ hist.evaluated > batch_size
    /\ out[Len(out)].accuracy[1] > 0
    /\ out[Len(out)].accuracy[1] < out[Len(out)].accuracy[2]

\* C9: the inference returns the label at the index of a highest-scoring
\* entry of the model's output for the input, an index within the ten-entry
\* table; the inference changes neither a module nor the table.
C9Inference ==
    [][(pc = "infer") =>
          /\ objs' = objs
          /\ classes' = classes
          /\ classes = ClassTable
          /\ Len(classes') = NumClasses
          /\ result'.pred = Logits(forward(objs[model].params, <<result.x>>))
          /\ \E i \in 0..(NumClasses - 1) :
                /\ \A j \in 1..NumClasses : result'.pred[1][j] <= result'.pred[1][i + 1]
                /\ result'.predicted = classes[i + 1]]_vars

\* an inference whose output has a single top entry, not the first one
C9Witness ==
    /\ pc = "end"
    /\ \E i \in 2..NumClasses :
          \A j \in (1..NumClasses) \ {i} : result.pred[1][j] < result.pred[1][i]

LinesOf(kinds) == SelectSeq(out, LAMBDA l : l.kind \in kinds)

TrainPcs == {"forward", "loss", "zero_grad", "backward", "opt_step", "log"}

TestPcs == {"test_begin", "test_batch"}

\* what the lines printed so far must be for the position of the run: a
\* header per epoch started, a report per epoch evaluated, alternating, then
\* "Done!"; and the optimizer steps taken: one per batch of every training
\* pass that has run
EpochLoopInv ==
    LET nb == NumBatches(train_dataloader)
        marks == LinesOf({"epoch", "test", "done"})
        started == IF pc = "epoch" THEN t ELSE t + 1
        tested == IF pc \in {"epoch"} \cup TrainPcs \cup TestPcs THEN t ELSE t + 1
        done == IF pc \in {"epoch", "loop_next", "done"} \cup TrainPcs \cup TestPcs
                THEN 0 ELSE 1
    IN  /\ t \in 0..(epochs - 1)
        /\ Len(marks) = started + tested + done
        /\ \A i \in 1..Len(marks) :
              IF i = 2 * epochs + 1 THEN marks[i].kind = "done"
              ELSE IF i % 2 = 1 THEN marks[i] = [kind |-> "epoch", n |-> (i + 1) \div 2]
              ELSE marks[i].kind = "test"
        /\ done = 1 => (started = epochs /\ tested = epochs)
        /\ pc \in TrainPcs \ {"log"} => hist.steps = t * nb + frame.batch
        /\ pc = "log" => hist.steps = t * nb + frame.batch + 1
        /\ pc \notin {"epoch"} \cup TrainPcs => hist.steps = (t + 1) * nb
        /\ pc = "epoch" => hist.steps = t * nb

Finished == pc = "save" /\ out[Len(out)].kind = "done"

\* C10: t runs through 0..epochs-1 one by one; in epoch t the training pass
\* has taken one optimizer step per batch of the training loader before the
\* evaluation pass starts; every epoch prints its header once and its test
\* report once, in that order; "Done!" is printed after the last report, and
\* the run gets there.
C10EpochLoop ==
    /\ []EpochLoopInv
    /\ [][t' = t \/ (t' = t + 1 /\ pc = "loop_next")]_vars
    /\ <>Finished

\* the run after "Done!", with more than one batch in each training pass
C10Witness ==
    /\ pc = "save"
    /\ t = epochs - 1
    /\ NumBatches(train_dataloader) > 1
    /\ Len(LinesOf({"test"})) = epochs

\* C11: the trained module is in training mode exactly until the first call
\* of test(), that is while epoch 1 is being set up and trained; from then on
\* it is in evaluation mode in every state, the gradient steps of the later
\* epochs included, and while the epoch loop runs it is the module the global
\* name model denotes.
C11EvalModeSticks ==
    /\ objs[optimizer.model].training =
          (t = 0 /\ pc \in {"epoch", "test_begin"} \cup TrainPcs)
    /\ pc \in {"epoch", "loop_next", "done"} \cup TrainPcs \cup TestPcs =>
          model = optimizer.model

\* a gradient step of a later epoch taken in evaluation mode
C11Witness ==
    /\ pc = "opt_step"
    /\ t >= 1
    /\ model = optimizer.model
    /\ ~objs[model].training
    /\ objs[model].grad # ZeroGrads

====
